---- MODULE Spec2Model ----
(***************************************************************************)
(* Model of the track-event decoder of midly (src/event.rs).               *)
(*                                                                         *)
(* A byte slice &[u8] is a window [lo, hi) of offsets into the track       *)
(* buffer b: lo plays the role of as_ptr(), hi - lo of len().  A mutable   *)
(* cursor `raw: &mut &[u8]` is such a window that shrinks from the front.  *)
(* Option<u8> is a sequence of length 0 (None) or 1 (Some).                *)
(***************************************************************************)
EXTENDS Integers, Sequences, FiniteSets, TLC

(* ------------------------------ bounds -------------------------------- *)
\* most bytes of a track after its first status-or-data byte
MaxArgs == 3
\* longest meta payload of the meta tracks
MaxData == 6
\* how many leading bytes of a meta payload vary
MaxVar == 2

(* ------------------------------ slices -------------------------------- *)
Slice(lo, hi) == [lo |-> lo, hi |-> hi]
SliceLen(s) == s.hi - s.lo
Advance(s, n) == Slice(s.lo + n, s.hi)
Whole(b) == Slice(0, Len(b))
NoSlice == Slice(0, 0)

None == << >>
Some(x) == << x >>

(* ------------------ primitive codec (crate::primitive) ----------------- *)
\* Results of the primitive readers: ok, the value, the cursor afterwards.
POk(v, s) == [ok |-> TRUE, val |-> v, raw |-> s]
PErr(s) == [ok |-> FALSE, val |-> 0, raw |-> s]

\* `r?` and what follows it: err when r is an Err, F of the Ok otherwise
\* (r is evaluated once and bound to x)
Try(r, err, F(_)) ==
    CHOOSE v \in {IF x.ok THEN F(x) ELSE err : x \in {r}} : TRUE

\* u8::read: one byte, short input fails
u8_read(b, s) ==
    IF SliceLen(s) < 1 THEN PErr(s) ELSE POk(b[s.lo + 1], Advance(s, 1))

\* u7::read: one byte whose high bit must be clear
u7_read(b, s) ==
    Try(u8_read(b, s), PErr(s), LAMBDA r : IF r.val > 127 THEN PErr(s) ELSE r)

\* u4::read: one byte that must fit 4 bits
u4_read(b, s) ==
    Try(u8_read(b, s), PErr(s), LAMBDA r : IF r.val > 15 THEN PErr(s) ELSE r)

\* u16::read: big-endian, two bytes
u16_read(b, s) ==
    IF SliceLen(s) < 2 THEN PErr(s)
    ELSE POk(b[s.lo + 1] * 256 + b[s.lo + 2], Advance(s, 2))

\* u24::read: big-endian, three bytes
u24_read(b, s) ==
    IF SliceLen(s) < 3 THEN PErr(s)
    ELSE POk(b[s.lo + 1] * 65536 + b[s.lo + 2] * 256 + b[s.lo + 3], Advance(s, 3))

\* u14::read_u7: two u7 bytes, the first the low 7 bits, the second the high 7
u14_read_u7(b, s) ==
    Try(u7_read(b, s), PErr(s), LAMBDA l :
        Try(u7_read(b, l.raw), PErr(s), LAMBDA h :
            POk(l.val + 128 * h.val, h.raw)))

\* the variable-length quantity: 1..=4 bytes, 7 bits each, high bit = more
RECURSIVE VarLen(_, _, _, _)
VarLen(b, s, acc, n) ==
    IF n = 4 \/ SliceLen(s) < 1 THEN PErr(s)
    ELSE IF b[s.lo + 1] >= 128
         THEN VarLen(b, Advance(s, 1), acc * 128 + (b[s.lo + 1] % 128), n + 1)
         ELSE POk(acc * 128 + (b[s.lo + 1] % 128), Advance(s, 1))

\* u28::read_u7
u28_read_u7(b, s) == VarLen(b, s, 0, 0)

\* read_varlen_slice: a VLQ length n, then the next n bytes, borrowed
read_varlen_slice(b, s) ==
    Try(u28_read_u7(b, s), PErr(s), LAMBDA n :
        IF SliceLen(n.raw) < n.val THEN PErr(s)
        ELSE POk(Slice(n.raw.lo, n.raw.lo + n.val), Advance(n.raw, n.val)))

\* SmpteTime::read: hr mn se fr ff; top 2 bits of hr are the frame rate,
\* the low 5 bits the hour (0..=23)
SmpteTime_read(b, s) ==
    IF SliceLen(s) < 5 THEN PErr(s)
    ELSE IF (b[s.lo + 1] % 32) > 23 THEN PErr(s)
    ELSE POk(<<b[s.lo + 1] \div 64, b[s.lo + 1] % 32, b[s.lo + 2], b[s.lo + 3],
               b[s.lo + 4], b[s.lo + 5]>>, Advance(s, 5))

(* ------------------------------ events -------------------------------- *)
\* A message: its variant, its integer fields, its borrowed bytes.
Msg(tag, args, data) == [tag |-> tag, args |-> args, data |-> data]
NoMsg == Msg("none", << >>, NoSlice)

\* Result of MidiMessage::read and MetaMessage::read
MOk(m, s) == [ok |-> TRUE, msg |-> m, raw |-> s]
MErr(s) == [ok |-> FALSE, msg |-> NoMsg, raw |-> s]

\* status.bit_range(0..4) and status.bit_range(4..8)
LowNibble(status) == status % 16
\* (mutant) the high nibble taken as bit_range(4..7)
HighNibble_ThreeBits(status) == (status \div 16) % 8
HighNibble(status) == status \div 16

MidiTag(nib) ==
    CASE nib = 8 -> "NoteOff"
      [] nib = 9 -> "NoteOn"
      [] nib = 10 -> "Aftertouch"
      [] nib = 11 -> "Controller"
      [] nib = 12 -> "ProgramChange"
      [] nib = 13 -> "ChannelAftertouch"
      [] nib = 14 -> "PitchBend"
      [] OTHER -> "none"

\* the two-u7 arms of MidiMessage::read
TwoU7(b, s, tag) ==
    Try(u7_read(b, s), MErr(s), LAMBDA x :
        Try(u7_read(b, x.raw), MErr(s), LAMBDA y :
            MOk(Msg(tag, <<x.val, y.val>>, NoSlice), y.raw)))

\* the one-u7 arms of MidiMessage::read
OneU7(b, s, tag) ==
    Try(u7_read(b, s), MErr(s), LAMBDA x :
        MOk(Msg(tag, <<x.val>>, NoSlice), x.raw))

\* the PitchBend arm of MidiMessage::read
PitchBendArm(b, s) ==
    Try(u14_read_u7(b, s), MErr(s), LAMBDA v :
        MOk(Msg("PitchBend", <<v.val>>, NoSlice), v.raw))

\* the arms of `match status.bit_range(4..8)`
MidiArm(b, s, nib) ==
    CASE nib \in {8, 9, 10, 11} -> TwoU7(b, s, MidiTag(nib))
      [] nib \in {12, 13} -> OneU7(b, s, MidiTag(nib))
      [] nib = 14 -> PitchBendArm(b, s)
      [] OTHER -> MErr(s)

\* MidiMessage::read(raw, status)
MidiMessage_read(b, s, status) == MidiArm(b, s, HighNibble(status))

(* --------------------------- meta messages ---------------------------- *)
\* the arms `0x01 => MetaMessage::Text(data)` .. 0x09 and 0x7F: data borrowed
TextTag(type_byte) ==
    CASE type_byte = 1 -> "Text"
      [] type_byte = 2 -> "Copyright"
      [] type_byte = 3 -> "TrackName"
      [] type_byte = 4 -> "InstrumentName"
      [] type_byte = 5 -> "Lyric"
      [] type_byte = 6 -> "Marker"
      [] type_byte = 7 -> "CuePoint"
      [] type_byte = 8 -> "ProgramName"
      [] type_byte = 9 -> "DeviceName"
      [] type_byte = 127 -> "SequencerSpecific"
      [] OTHER -> "none"

\* 0x00 => TrackNumber(match data.len() { 0 => None, 2 => Some(u16), _ => bail })
TrackNumberArm(b, data) ==
    CASE SliceLen(data) = 0 -> MOk(Msg("TrackNumber", None, NoSlice), data)
      [] SliceLen(data) = 2 ->
            Try(u16_read(b, data), MErr(data), LAMBDA v :
                MOk(Msg("TrackNumber", Some(v.val), NoSlice), v.raw))
      [] OTHER -> MErr(data)

\* 0x20 => { ensure!(data.len() == 1); MidiChannel(u4::read(&mut data)?) }
MidiChannelArm(b, data) ==
    IF SliceLen(data) # 1 THEN MErr(data)
    ELSE Try(u4_read(b, data), MErr(data), LAMBDA v :
             MOk(Msg("MidiChannel", <<v.val>>, NoSlice), v.raw))

\* (mutant) the port read with u8::read instead of u7::read
MidiPortArm_U8(b, data) ==
    IF SliceLen(data) # 1 THEN MErr(data)
    ELSE Try(u8_read(b, data), MErr(data), LAMBDA v :
             MOk(Msg("MidiPort", <<v.val>>, NoSlice), v.raw))

\* 0x21 => { ensure!(data.len() == 1); MidiPort(u7::read(&mut data)?) }
MidiPortArm(b, data) ==
    IF SliceLen(data) # 1 THEN MErr(data)
    ELSE Try(u7_read(b, data), MErr(data), LAMBDA v :
             MOk(Msg("MidiPort", <<v.val>>, NoSlice), v.raw))

\* 0x2F => { ensure!(data.len() == 0); EndOfTrack }
EndOfTrackArm(b, data) ==
    IF SliceLen(data) # 0 THEN MErr(data)
    ELSE MOk(Msg("EndOfTrack", << >>, NoSlice), data)

\* 0x51 => { ensure!(data.len() == 3); Tempo(u24::read(&mut data)?) }
TempoArm(b, data) ==
    IF SliceLen(data) # 3 THEN MErr(data)
    ELSE Try(u24_read(b, data), MErr(data), LAMBDA v :
             MOk(Msg("Tempo", <<v.val>>, NoSlice), v.raw))

\* 0x54 => { ensure!(data.len() == 5); SmpteOffset(SmpteTime::read(&mut data)?) }
SmpteOffsetArm(b, data) ==
    IF SliceLen(data) # 5 THEN MErr(data)
    ELSE Try(SmpteTime_read(b, data), MErr(data), LAMBDA v :
             MOk(Msg("SmpteOffset", v.val, NoSlice), v.raw))

\* 0x58 => { ensure!(data.len() == 4); TimeSignature(u8, u8, u8, u8) }
TimeSignatureArm(b, data) ==
    IF SliceLen(data) # 4 THEN MErr(data)
    ELSE Try(u8_read(b, data), MErr(data), LAMBDA n :
         Try(u8_read(b, n.raw), MErr(data), LAMBDA d :
         Try(u8_read(b, d.raw), MErr(data), LAMBDA c :
         Try(u8_read(b, c.raw), MErr(data), LAMBDA x :
             MOk(Msg("TimeSignature", <<n.val, d.val, c.val, x.val>>, NoSlice),
                 x.raw)))))

\* `x as i8` of a u8
AsI8(x) == IF x >= 128 THEN x - 256 ELSE x
\* `x != 0` as 0 or 1
NonZero(x) == IF x # 0 THEN 1 ELSE 0

\* 0x59 => KeySignature(u8::read(&mut data)? as i8, u8::read(&mut data)? != 0)
\* (no ensure! on data.len() in this arm)
KeySignatureArm(b, data) ==
    Try(u8_read(b, data), MErr(data), LAMBDA k :
    Try(u8_read(b, k.raw), MErr(data), LAMBDA m :
        MOk(Msg("KeySignature", <<AsI8(k.val), NonZero(m.val)>>, NoSlice), m.raw)))

\* (mutant) a type byte outside the table kept as an opaque payload
MetaArm_UnknownAsData(b, type_byte, data) ==
    CASE type_byte = 0 -> TrackNumberArm(b, data)
      [] type_byte \in 1..9 \cup {127} ->
            MOk(Msg(TextTag(type_byte), << >>, data), data)
      [] type_byte = 32 -> MidiChannelArm(b, data)
      [] type_byte = 33 -> MidiPortArm(b, data)
      [] type_byte = 47 -> EndOfTrackArm(b, data)
      [] type_byte = 81 -> TempoArm(b, data)
      [] type_byte = 84 -> SmpteOffsetArm(b, data)
      [] type_byte = 88 -> TimeSignatureArm(b, data)
      [] type_byte = 89 -> KeySignatureArm(b, data)
      [] OTHER -> MOk(Msg("SequencerSpecific", << >>, data), data)

\* the `match type_byte` of MetaMessage::read, over the secondary cursor data
MetaArm(b, type_byte, data) ==
    CASE type_byte = 0 -> TrackNumberArm(b, data)
      [] type_byte \in 1..9 \cup {127} ->
            MOk(Msg(TextTag(type_byte), << >>, data), data)
      [] type_byte = 32 -> MidiChannelArm(b, data)
      [] type_byte = 33 -> MidiPortArm(b, data)
      [] type_byte = 47 -> EndOfTrackArm(b, data)
      [] type_byte = 81 -> TempoArm(b, data)
      [] type_byte = 84 -> SmpteOffsetArm(b, data)
      [] type_byte = 88 -> TimeSignatureArm(b, data)
      [] type_byte = 89 -> KeySignatureArm(b, data)
      [] OTHER -> MErr(data)

\* MetaMessage::read(raw): type byte, varlen data, then the arm; the cursor
\* raw ends after the data whatever the arm read of it
MetaMessage_read(b, s) ==
    Try(u8_read(b, s), MErr(s), LAMBDA t :
    Try(read_varlen_slice(b, t.raw), MErr(s), LAMBDA d :
    Try(MetaArm(b, t.val, d.val), MErr(s), LAMBDA m :
        MOk(m.msg, d.raw))))

(* ---------------------------- EventKind::read -------------------------- *)
Kind(kind, channel, msg) == [kind |-> kind, channel |-> channel, msg |-> msg]
NoKind == Kind("none", 0, NoMsg)

\* (mutant) a system or invalid status clears the cell
SetRunningStatus_ClearOnSystem(rs, status) ==
    IF status \in 128..239 THEN Some(status) ELSE None
\* (mutant) the cell is written for channel statuses only
SetRunningStatus_ChannelOnly(rs, status) ==
    IF status \in 128..239 THEN Some(status) ELSE rs
\* (mutant) the cell is never written
SetRunningStatus_Forget(rs, status) == rs
\* `*running_status = Some(status)` (line 46)
SetRunningStatus(rs, status) == Some(status)

\* (mutant) the cursor advances past the first byte even when it is data
ConsumeStatus_Always(s, present) == Advance(s, 1)
\* `*raw = &raw[1..]` when the status byte is present (line 49); no advance
\* under running status
ConsumeStatus(s, present) == IF present THEN Advance(s, 1) ELSE s

\* Result of the status resolution: the status, the cursor, the cell
SOk(status, s, rs) == [ok |-> TRUE, status |-> status, raw |-> s, rs |-> rs]
SErr(s, rs) == [ok |-> FALSE, status |-> 0, raw |-> s, rs |-> rs]

\* (mutant) `running_status.unwrap_or(0x80)`: a missing running status
\* defaults to NoteOff on channel 0 instead of failing
Status_read_Default(b, s, rs) ==
    IF SliceLen(s) < 1 THEN SErr(s, rs)
    ELSE IF b[s.lo + 1] < 128
         THEN SOk(IF rs = None THEN 128 ELSE rs[1], ConsumeStatus(s, FALSE), rs)
         ELSE SOk(b[s.lo + 1], ConsumeStatus(s, TRUE),
                  SetRunningStatus(rs, b[s.lo + 1]))

\* lines 40..50: read the status, resolve running status, update the cell
Status_read(b, s, rs) ==
    IF SliceLen(s) < 1 THEN SErr(s, rs)
    ELSE IF b[s.lo + 1] < 128
         THEN IF rs = None THEN SErr(s, rs)
              ELSE SOk(rs[1], ConsumeStatus(s, FALSE), rs)
         ELSE SOk(b[s.lo + 1], ConsumeStatus(s, TRUE),
                  SetRunningStatus(rs, b[s.lo + 1]))

\* (mutant) the channel pattern written so that it also takes 0xF1..=0xF6
StatusClass_WideMidi(status) ==
    CASE status \in (128..239) \cup (241..246) -> "Midi"
      [] status = 240 -> "SysEx"
      [] status = 247 -> "Escape"
      [] status = 255 -> "Meta"
      [] OTHER -> "invalid"

\* (mutant) the SysEx pattern written as the range 0xF0..=0xF6
StatusClass_WideSysEx(status) ==
    CASE status \in 128..239 -> "Midi"
      [] status \in 240..246 -> "SysEx"
      [] status = 247 -> "Escape"
      [] status = 255 -> "Meta"
      [] OTHER -> "invalid"

\* the patterns of `match status` (lines 53, 61, 64, 67, 70)
StatusClass(status) ==
    CASE status \in 128..239 -> "Midi"
      [] status = 240 -> "SysEx"
      [] status = 247 -> "Escape"
      [] status = 255 -> "Meta"
      [] OTHER -> "invalid"

KOk(k, s) == [ok |-> TRUE, kind |-> k, raw |-> s]
KErr(s) == [ok |-> FALSE, kind |-> NoKind, raw |-> s]

\* (mutant) the SysEx and Escape payload taken from the start of its length
\* prefix
DispatchArm_WithPrefix(b, s, status, class) ==
    CASE class = "Midi" ->
            Try(MidiMessage_read(b, s, status), KErr(s), LAMBDA m :
                KOk(Kind("Midi", LowNibble(status), m.msg), m.raw))
      [] class \in {"SysEx", "Escape"} ->
            Try(read_varlen_slice(b, s), KErr(s), LAMBDA d :
                KOk(Kind(class, 0, Msg(class, << >>, Slice(s.lo, d.val.hi))),
                    d.raw))
      [] class = "Meta" ->
            Try(MetaMessage_read(b, s), KErr(s), LAMBDA m :
                KOk(Kind("Meta", 0, m.msg), m.raw))
      [] OTHER -> KErr(s)

\* the arms of `match status`
DispatchArm(b, s, status, class) ==
    CASE class = "Midi" ->
            Try(MidiMessage_read(b, s, status), KErr(s), LAMBDA m :
                KOk(Kind("Midi", LowNibble(status), m.msg), m.raw))
      [] class \in {"SysEx", "Escape"} ->
            Try(read_varlen_slice(b, s), KErr(s), LAMBDA d :
                KOk(Kind(class, 0, Msg(class, << >>, d.val)), d.raw))
      [] class = "Meta" ->
            Try(MetaMessage_read(b, s), KErr(s), LAMBDA m :
                KOk(Kind("Meta", 0, m.msg), m.raw))
      [] OTHER -> KErr(s)

\* lines 52..71: `match status`
Dispatch(b, s, status) == DispatchArm(b, s, status, StatusClass(status))

\* lines 73..74: the prefix of old_slice that does not intersect raw
ConsumedPrefix(old_slice, raw_after) ==
    Slice(old_slice.lo, old_slice.lo + (raw_after.lo - old_slice.lo))

\* Result of EventKind::read: the returned raw-bytes slice, the kind, the
\* cursor afterwards, the running-status cell afterwards
EOk(bytes, k, s, rs) ==
    [ok |-> TRUE, bytes |-> bytes, kind |-> k, raw |-> s, rs |-> rs]
EErr(s, rs) ==
    [ok |-> FALSE, bytes |-> NoSlice, kind |-> NoKind, raw |-> s, rs |-> rs]

\* EventKind::read(raw, running_status)
EventKind_read(b, s, rs) ==
    Try(Status_read(b, s, rs), EErr(s, Status_read(b, s, rs).rs), LAMBDA st :
        Try(Dispatch(b, st.raw, st.status), EErr(st.raw, st.rs), LAMBDA k :
            EOk(ConsumedPrefix(s, k.raw), k.kind, k.raw, st.rs)))

\* Result of Event::read; dok and kstart tell whether the delta time was read
\* and where the cursor stood after it (where EventKind::read starts)
ROk(delta, kstart, e) ==
    [ok |-> TRUE, dok |-> TRUE, delta |-> delta, kstart |-> kstart,
     bytes |-> e.bytes, kind |-> e.kind, raw |-> e.raw, rs |-> e.rs]
RErr(dok, kstart, s, rs) ==
    [ok |-> FALSE, dok |-> dok, delta |-> 0, kstart |-> kstart,
     bytes |-> NoSlice, kind |-> NoKind, raw |-> s, rs |-> rs]

\* (mutant) the delta time is not read: the kind starts at the cursor
Event_read_NoDelta(b, s, rs) ==
    Try(EventKind_read(b, s, rs),
        RErr(TRUE, s.lo, s, EventKind_read(b, s, rs).rs),
        LAMBDA e : ROk(0, s.lo, e))

\* Event::read(raw, running_status): the delta time, then the kind
Event_read(b, s, rs) ==
    Try(u28_read_u7(b, s), RErr(FALSE, s.lo, s, rs), LAMBDA delta :
        Try(EventKind_read(b, delta.raw, rs),
            RErr(TRUE, delta.raw.lo, delta.raw,
                 EventKind_read(b, delta.raw, rs).rs),
            LAMBDA e : ROk(delta.val, delta.raw.lo, e)))

(* ------------------------------ the track ------------------------------ *)
VARIABLES
    buf,             \* the track buffer the cursor points into
    raw,             \* the cursor `raw: &mut &[u8]`
    running_status,  \* the cell `running_status: &mut Option<u8>`
    last,            \* what the last call of Event::read saw and returned
    chan_seen,       \* the last channel status byte (0x80..=0xEF) an event carried
    clean,           \* no read of this track has failed: the cursor is where
                     \* the successful reads left it
    pair             \* two tracks decoded side by side, each with its own
                     \* cursor and running-status cell, and the order of the reads

vars == <<buf, raw, running_status, last, chan_seen, clean, pair>>

SeqsUpTo(S, n) == UNION {[1..k -> S] : k \in 0..n}

\* The wire format of an event is <delta: VLQ> <status-or-data> <args>.
\* A track starts with one such event and goes on with whatever follows.
\* delta times of one and of two bytes
Deltas == {<<0>>, <<129, 0>>}
\* the byte after the delta time: data bytes, the seven channel families on
\* several channels, SysEx, Escape, Meta, and the invalid statuses
FirstBytes ==
    {0, 128, 149, 175, 176, 197, 223, 239, 240, 241, 246, 247, 248, 254, 255}
\* what follows: data bytes (0x21 is also the MidiPort meta type, 0x01 a
\* length), a byte with the high bit set that is a channel status, and an
\* invalid status
ArgBytes == {0, 1, 33, 223, 241}
Tracks ==
    {d \o <<f>> \o a :
        d \in Deltas, f \in FirstBytes, a \in SeqsUpTo(ArgBytes, MaxArgs)}

\* one meta event `00 FF type len data..`, every type of the table with a
\* required length, a text type and types outside the table (0x0A, 0x10,
\* 0x7E, 0x80); the first MaxVar bytes of the data vary, the rest are zero
MetaTypes == {0, 1, 32, 33, 47, 81, 84, 88, 89, 10, 16, 126, 128}
DataBytes == {0, 129}
MetaData ==
    {h \o [i \in 1..z |-> 0] :
        h \in SeqsUpTo(DataBytes, MaxVar), z \in 0..(MaxData - MaxVar)}
MetaTracks ==
    {<<0, 255, t, n>> \o d :
        t \in MetaTypes, n \in 0..(MaxData + 1), d \in MetaData}

\* one event with a borrowed payload, `00 F0 len data..`, `00 F7 len data..`
\* or `00 FF type len data..` with a text or sequencer-specific type, the
\* length written in one byte or in two (0x80 n), then whatever follows
BlobHeads == {<<240>>, <<247>>, <<255, 1>>, <<255, 9>>, <<255, 127>>}
BlobLens == {<<n>> : n \in 0..(MaxData + 1)} \cup {<<128, n>> : n \in 0..MaxData}
BlobTracks ==
    {<<0>> \o h \o n \o d : h \in BlobHeads, n \in BlobLens, d \in MetaData}

\* the tracks decoded side by side: a channel event, a SysEx or a data byte
\* first, then data bytes and channel statuses
PairFirst == {0, 197, 240}
PairBytes == {0, 223}
PairTracks ==
    {<<0, f>> \o a : f \in PairFirst, a \in SeqsUpTo(PairBytes, MaxArgs)}

\* a track being decoded: its cursor, its cell, the results so far, and
\* whether its caller has stopped (on the first Err or at the end of the track)
Track(b) ==
    [buf |-> b, raw |-> Whole(b), running_status |-> None, out |-> << >>,
     done |-> FALSE]
NoPair == [tr |-> [t \in {1, 2} |-> [Track(<< >>) EXCEPT !.done = TRUE]],
           order |-> << >>]

NoRead ==
    [called |-> FALSE, ok |-> FALSE, before |-> 0, rs0 |-> None, seen0 |-> None,
     clean0 |-> TRUE, dok |-> FALSE, kstart |-> 0, delta |-> 0, bytes |-> NoSlice, kind |-> NoKind]

InitOn(tracks) ==
    /\ buf \in tracks
    /\ raw = Whole(buf)
    /\ running_status = None
    /\ last = NoRead
    /\ chan_seen = None
    /\ clean = TRUE
    /\ pair = NoPair

Init == InitOn(Tracks)
InitMeta == InitOn(MetaTracks)
InitBlob == InitOn(BlobTracks)

\* the record of one call of Event::read
Seen(r) ==
    [called |-> TRUE, ok |-> r.ok, before |-> raw.lo, rs0 |-> running_status,
     seen0 |-> chan_seen, clean0 |-> clean, dok |-> r.dok, kstart |-> r.kstart, delta |-> r.delta,
     bytes |-> r.bytes, kind |-> r.kind]

\* the first byte after the delta time is a channel status byte
CarriedStatus(r) ==
    IF r.dok /\ r.kstart < raw.hi /\ buf[r.kstart + 1] \in 128..239
    THEN Some(buf[r.kstart + 1]) ELSE chan_seen

\* the call returned r, an Ok: the cursor is at the next event
Returned(r) ==
    /\ r.ok
    /\ raw' = r.raw
    /\ running_status' = r.rs
    /\ last' = Seen(r)
    /\ chan_seen' = CarriedStatus(r)
    /\ UNCHANGED <<buf, clean, pair>>

\* Event::read returns Ok
ReadOk == Returned(Event_read(buf, raw, running_status))

\* the call returned r, an Err: the cell is as the code left it; where a
\* failed read leaves the cursor is not specified, so it is anywhere between
\* where it was and the end of the track
Failed(r) ==
    /\ ~r.ok
    /\ \E p \in raw.lo..raw.hi : raw' = Slice(p, raw.hi)
    /\ running_status' = r.rs
    /\ last' = Seen(r)
    /\ chan_seen' = CarriedStatus(r)
    /\ clean' = FALSE
    /\ UNCHANGED <<buf, pair>>

\* Event::read returns Err
ReadErr == Failed(Event_read(buf, raw, running_status))

Next == ReadOk \/ ReadErr

\* what Event::read hands its caller
Result(r) == [ok |-> r.ok, delta |-> r.delta, kind |-> r.kind, bytes |-> r.bytes]

InitPair ==
    /\ buf = << >>
    /\ raw = Whole(buf)
    /\ running_status = None
    /\ last = NoRead
    /\ chan_seen = None
    /\ clean = TRUE
    /\ \E b1 \in PairTracks, b2 \in PairTracks :
          pair = [tr |-> <<Track(b1), Track(b2)>>, order |-> << >>]

\* track t after its call of Event::read returned r: the caller stops on an
\* Err and at the end of the track
AfterRead(tk, r) ==
    [tk EXCEPT !.raw = r.raw, !.running_status = r.rs,
               !.out = Append(tk.out, Result(r)),
               !.done = ~r.ok \/ SliceLen(r.raw) = 0]

\* (mutant) one running-status cell shared by the two tracks
TrackRead_SharedCell(t, r) ==
    /\ ~pair.tr[t].done
    /\ pair' = [tr |-> [u \in {1, 2} |->
                           IF u = t THEN AfterRead(pair.tr[t], r)
                           ELSE [pair.tr[u] EXCEPT !.running_status = r.rs]],
                order |-> Append(pair.order, t)]
    /\ UNCHANGED <<buf, raw, running_status, last, chan_seen, clean>>

\* the call of Event::read on track t returned r: only the cursor and the
\* cell passed to it change
TrackRead(t, r) ==
    /\ ~pair.tr[t].done
    /\ pair' = [tr |-> [pair.tr EXCEPT ![t] = AfterRead(pair.tr[t], r)],
                order |-> Append(pair.order, t)]
    /\ UNCHANGED <<buf, raw, running_status, last, chan_seen, clean>>

\* the decoder of track t calls Event::read
ReadTrack(t) ==
    TrackRead(t, Event_read(pair.tr[t].buf, pair.tr[t].raw,
                            pair.tr[t].running_status))

NextPair == ReadTrack(1) \/ ReadTrack(2)

Spec == Init /\ [][Next]_vars
SpecPair == InitPair /\ [][NextPair]_vars

\* a caller that reads a track until the first Err or the end of its slice
CallerRuns == clean /\ SliceLen(raw) > 0
NextCaller == CallerRuns /\ Next
SpecCaller == Init /\ [][NextCaller]_vars /\ WF_vars(NextCaller)
SpecMeta == InitMeta /\ [][Next]_vars
SpecBlob == InitBlob /\ [][Next]_vars

(* ------------------------------ the claims ----------------------------- *)
\* the last read got past the delta time and found a byte there
HasFirst == last.called /\ last.dok /\ last.kstart < Len(buf)
\* that byte: the first byte after the delta time
FirstByte == buf[last.kstart + 1]
\* it is a data byte
DataFirst == HasFirst /\ FirstByte < 128
\* the status the last read decodes under: the first byte, or the cell
Resolved == IF FirstByte >= 128 THEN FirstByte ELSE last.rs0[1]
\* the last read had a channel status to decode under
ChannelRead ==
    /\ HasFirst
    /\ (FirstByte < 128 => last.rs0 # None)
    /\ Resolved \in 128..239
\* where the arguments of the last read start, and how many it takes
ArgStart == IF FirstByte >= 128 THEN last.kstart + 1 ELSE last.kstart
ArgCount == IF Resolved \div 16 \in {12, 13} THEN 1 ELSE 2

\* C1: for every successful Event::read (on a track no read of which failed)
\* the bytes the cursor advanced by are the returned raw-bytes slice: it runs
\* from the cursor before the delta time to the cursor after the event.
C1_CursorConservation ==
    (last.called /\ last.clean0 /\ last.ok) =>
        /\ raw.lo - last.before = SliceLen(last.bytes)
        /\ last.bytes.lo = last.before
        /\ last.bytes.hi = raw.lo

\* C2: (on a track no read of which failed) a successfully decoded SysEx,
\* Escape or Meta event leaves the running-status cell as it was, and only a
\* decoded event with a status byte in 0x80..=0xEF changes the cell.
C2_SystemEventTransparency ==
    (last.called /\ last.clean0 /\ last.ok) =>
        /\ last.kind.kind \in {"SysEx", "Escape", "Meta"}
              => running_status = last.rs0
        /\ running_status # last.rs0 => FirstByte \in 128..239

\* C3: after a successful read that yields a Channel event decoded under
\* status S (present in the input or supplied by the cell), S is in
\* 0x80..=0xEF and the running-status cell equals S.
C3_RunningStatusPreservation ==
    (last.called /\ last.ok /\ last.kind.kind = "Midi") =>
        /\ Resolved \in 128..239
        /\ running_status = Some(Resolved)

\* a Channel event was decoded under a status the cell supplied
C3_Witness ==
    /\ last.called /\ last.ok /\ last.kind.kind = "Midi"
    /\ DataFirst
    /\ running_status = Some(197)

\* C4: with the cell none and a data byte first after the delta time, the
\* read fails and the cell is still none.
C4_MissingRunningStatus ==
    (last.called /\ last.rs0 = None /\ DataFirst) =>
        (~last.ok /\ running_status = None)

\* a read met a data byte first with the cell none, other bytes following
C4_Witness ==
    /\ last.called /\ last.rs0 = None /\ DataFirst /\ ~last.ok
    /\ Len(buf) >= last.kstart + 3

\* C5: (on a track no read of which failed) a data-first event is decoded
\* successfully only if an earlier event carried a channel status byte, and
\* then as a Channel event under the most recent channel status byte; never
\* as SysEx, Escape or Meta.
C5_TwoStateProtocol ==
    (last.called /\ last.clean0 /\ last.ok /\ DataFirst) =>
        /\ last.seen0 # None
        /\ last.kind.kind = "Midi"
        /\ last.kind.channel = last.seen0[1] % 16
        /\ last.kind.msg.tag = MidiTag(last.seen0[1] \div 16)

\* the track of the last read with status S written before its first byte
Explicit(S) ==
    SubSeq(buf, 1, last.kstart) \o <<S>> \o SubSeq(buf, last.kstart + 1, Len(buf))

\* C6: with a channel status S in the cell and a data byte first, the read
\* decodes what the same bytes decode to with S written explicitly (whatever
\* the cell then holds), consumes one byte fewer, and returns raw bytes that
\* start at the data byte.
C6_RunningStatusEquivalence ==
    (last.called /\ DataFirst /\ last.rs0 # None /\ Resolved \in 128..239) =>
        \A cell \in {None, last.rs0} :
            LET b2 == Explicit(Resolved)
                e == Event_read(b2, Slice(last.before, Len(b2)), cell)
            IN  /\ e.ok = last.ok
                /\ last.ok =>
                      /\ e.delta = last.delta
                      /\ e.kind = last.kind
                      /\ e.raw.lo - last.before = (raw.lo - last.before) + 1
                      /\ last.bytes.lo = last.kstart
                      /\ SliceLen(e.bytes) = SliceLen(last.bytes) + 1

\* a ProgramChange was decoded under the running status of the event before
C6_Witness ==
    /\ buf = <<0, 197, 0, 0, 1>>
    /\ last.called /\ last.ok /\ DataFirst
    /\ last.before = 3 /\ last.rs0 = Some(197)
    /\ last.kind.msg.args = <<1>>

\* the meta types with a required payload length, and the lengths
FixedTypes == {0, 32, 33, 47, 81, 84, 88, 89}
RequiredLen(t) ==
    CASE t = 0 -> {0, 2}
      [] t = 32 -> {1}
      [] t = 33 -> {1}
      [] t = 47 -> {0}
      [] t = 81 -> {3}
      [] t = 84 -> {5}
      [] t = 88 -> {4}
      [] t = 89 -> {2}
      [] OTHER -> {}

\* C7: a meta event (the first of its track) of a type with a required
\* payload length whose declared length differs from it (shorter or longer)
\* fails.
C7_MetaLengthMismatch ==
    LET k == last.kstart
        declared == u28_read_u7(buf, Slice(k + 2, Len(buf)))
    IN  (/\ HasFirst /\ FirstByte = 255 /\ last.before = 0
         /\ Len(buf) >= k + 3
         /\ buf[k + 2] \in FixedTypes
         /\ declared.ok
         /\ declared.val \notin RequiredLen(buf[k + 2]))
        => ~last.ok

InvalidStatus == (241..246) \cup (248..254)

\* C8: an event whose first byte after the delta time is in 0xF1..=0xF6 or
\* 0xF8..=0xFE fails, whatever the running-status cell holds.
C8_InvalidStatus ==
    (HasFirst /\ FirstByte \in InvalidStatus) => ~last.ok

\* an invalid status was met after a channel event, with its status in the
\* cell
C8_Witness ==
    /\ buf = <<0, 197, 0, 0, 241>>
    /\ HasFirst /\ FirstByte \in InvalidStatus /\ ~last.ok
    /\ last.before = 3 /\ last.rs0 = Some(197)

\* the variant each high nibble selects
C9_Variant(nib) ==
    CASE nib = 8 -> "NoteOff"
      [] nib = 9 -> "NoteOn"
      [] nib = 10 -> "Aftertouch"
      [] nib = 11 -> "Controller"
      [] nib = 12 -> "ProgramChange"
      [] nib = 13 -> "ChannelAftertouch"
      [] nib = 14 -> "PitchBend"

\* the argument bytes of the last read are there and are u7
ValidArgs ==
    /\ ArgStart + ArgCount <= Len(buf)
    /\ \A i \in 1..ArgCount : buf[ArgStart + i] < 128

\* C9: under a status S in 0x80..=0xEF with valid u7 argument bytes the read
\* emits a Channel event on channel S mod 16 of the variant S div 16 selects,
\* and the cursor ends 2 bytes after the start of the arguments for the
\* nibbles 8, 9, A, B, E and 1 byte after it for C and D.
C9_ChannelDispatch ==
    (ChannelRead /\ ValidArgs) =>
        /\ last.ok
        /\ last.kind.kind = "Midi"
        /\ last.kind.channel = Resolved % 16
        /\ last.kind.msg.tag = C9_Variant(Resolved \div 16)
        /\ raw.lo = ArgStart + ArgCount

\* a PitchBend on channel 15 was decoded from an explicit status
C9_Witness ==
    /\ ChannelRead /\ ValidArgs /\ last.ok
    /\ FirstByte = 239
    /\ last.kind.msg.tag = "PitchBend"

\* C10: every u7 field of an emitted event (the fields of the channel
\* messages other than PitchBend, the MIDI port) is at most 127, and a
\* channel event with a byte >= 0x80 in an argument position fails.
C10_U7Soundness ==
    /\ (last.called /\ last.ok /\ last.kind.kind = "Midi"
            /\ last.kind.msg.tag # "PitchBend")
          => \A i \in 1..Len(last.kind.msg.args) : last.kind.msg.args[i] \in 0..127
    /\ (last.called /\ last.ok /\ last.kind.msg.tag = "MidiPort")
          => last.kind.msg.args[1] \in 0..127
    /\ (ChannelRead /\ \E i \in 1..ArgCount :
                          /\ ArgStart + i <= Len(buf)
                          /\ buf[ArgStart + i] >= 128)
          => ~last.ok
    /\ (/\ HasFirst /\ FirstByte = 255 /\ Len(buf) >= last.kstart + 4
        /\ buf[last.kstart + 2] = 33 /\ buf[last.kstart + 3] = 1
        /\ buf[last.kstart + 4] >= 128)
          => ~last.ok

\* a MidiPort meta event with a port byte >= 0x80 was read
C10_Witness ==
    /\ HasFirst /\ FirstByte = 255 /\ Len(buf) >= last.kstart + 4
    /\ buf[last.kstart + 2] = 33 /\ buf[last.kstart + 3] = 1
    /\ buf[last.kstart + 4] >= 128
    /\ ~last.ok

\* the variants that borrow their payload from the track
BorrowTags ==
    {"SysEx", "Escape", "Text", "Copyright", "TrackName", "InstrumentName",
     "Lyric", "Marker", "CuePoint", "ProgramName", "DeviceName",
     "SequencerSpecific"}
\* where the length prefix of the payload of the last read starts: after the
\* status byte if there is one, and after the type byte of a meta event
VlqStart == IF last.kind.kind = "Meta" THEN ArgStart + 1 ELSE ArgStart
\* the length prefix of the payload of the last read
DeclaredLen == u28_read_u7(buf, Slice(VlqStart, Len(buf)))

\* C11: the payload a successful read borrows lies inside the bytes the read
\* consumed (and inside the returned raw bytes), hence inside the track, it
\* starts right after its length prefix and its length is that VLQ.
C11_ZeroCopyContainment ==
    (last.called /\ last.ok /\ last.kind.msg.tag \in BorrowTags) =>
        /\ last.before <= last.kind.msg.data.lo
        /\ last.bytes.lo <= last.kind.msg.data.lo
        /\ last.kind.msg.data.lo <= last.kind.msg.data.hi
        /\ last.kind.msg.data.hi <= last.bytes.hi
        /\ last.kind.msg.data.hi <= raw.lo
        /\ raw.lo <= Len(buf)
        /\ DeclaredLen.ok
        /\ last.kind.msg.data.lo = DeclaredLen.raw.lo
        /\ SliceLen(last.kind.msg.data) = DeclaredLen.val

\* a SysEx payload of three bytes was borrowed, its length written in two
\* bytes, with bytes of the track left after it
C11_Witness ==
    /\ last.called /\ last.ok /\ last.kind.kind = "SysEx"
    /\ buf[last.kstart + 2] = 128
    /\ SliceLen(last.kind.msg.data) = 3
    /\ raw.lo < Len(buf)

\* the last read had the Meta status to decode under, and a type byte
MetaRead ==
    /\ HasFirst
    /\ (FirstByte < 128 => last.rs0 # None)
    /\ Resolved = 255
    /\ ArgStart < Len(buf)
\* the type byte of the meta event of the last read
TypeByte == buf[ArgStart + 1]
\* the type bytes of the table of meta messages
KnownTypes == (0..9) \cup {32, 33, 47, 81, 84, 88, 89, 127}

\* C12: a meta event whose type byte is outside the table fails, whatever its
\* declared payload length.
C12_UnknownMetaType ==
    (MetaRead /\ TypeByte \notin KnownTypes) => ~last.ok

\* a meta event of type 0x10 with a declared length of 2 and its two payload
\* bytes present was read
C12_Witness ==
    /\ MetaRead /\ last.before = 0 /\ ~last.ok
    /\ TypeByte = 16
    /\ buf[4] = 2
    /\ Len(buf) = 6

\* a track decoded alone: Event::read called until the first Err or the end
\* of the track; the results and the running-status cell at the end
RECURSIVE Alone(_, _, _, _)
AloneStep(b, outs, r) ==
    IF ~r.ok \/ SliceLen(r.raw) = 0
    THEN [out |-> Append(outs, Result(r)), running_status |-> r.rs]
    ELSE Alone(b, r.raw, r.rs, Append(outs, Result(r)))
Alone(b, s, rs, outs) == AloneStep(b, outs, Event_read(b, s, rs))

\* the results of track tk so far are the first results of decoding it alone,
\* and all of them, with the same cell, once its caller has stopped
AsAlone(tk, alone) ==
    /\ Len(tk.out) <= Len(alone.out)
    /\ tk.out = SubSeq(alone.out, 1, Len(tk.out))
    /\ tk.done => (tk.out = alone.out /\ tk.running_status = alone.running_status)

\* C13: with separate cursors and separate running-status cells, in every
\* interleaving of the reads of two tracks each track yields the results and
\* the final running status of decoding it alone.
C13_TrackIndependence ==
    \A t \in {1, 2} :
        AsAlone(pair.tr[t], Alone(pair.tr[t].buf, Whole(pair.tr[t].buf), None, << >>))

\* two tracks of two events each were decoded in alternation and ended with
\* different running statuses
C13_Witness ==
    /\ pair.order = <<1, 2, 1, 2>>
    /\ pair.tr[1].done /\ pair.tr[2].done
    /\ pair.tr[1].out[2].ok /\ pair.tr[2].out[2].ok
    /\ pair.tr[1].running_status = Some(197)
    /\ pair.tr[2].running_status = Some(240)

\* the status resolution of the last read, at the cursor after the delta time
StatusStep == Status_read(buf, Slice(last.kstart, Len(buf)), last.rs0)

\* C14: when the first byte after the delta time is >= 0x80 (channel, 0xF0,
\* 0xF7, 0xFF or invalid), dispatch starts one byte past it with the cell set
\* to that byte, and the cell holds it after the read whether the read
\* succeeded or failed; when that byte is < 0x80, or there is none, or the
\* delta time could not be read, the read leaves the cell as it was.
C14_StatusWriteThrough ==
    last.called =>
        /\ (HasFirst /\ FirstByte >= 128) =>
              /\ running_status = Some(FirstByte)
              /\ StatusStep.ok
              /\ StatusStep.status = FirstByte
              /\ StatusStep.raw = Slice(last.kstart + 1, Len(buf))
              /\ StatusStep.rs = Some(FirstByte)
              /\ last.ok => raw.lo >= last.kstart + 1
        /\ ~(HasFirst /\ FirstByte >= 128) => running_status = last.rs0

\* after a ProgramChange, a read finds the status 0xDF with no argument
\* behind it: it fails, and the cell holds 0xDF
C14_Witness ==
    /\ buf = <<0, 197, 0, 0, 223>>
    /\ last.called /\ ~last.ok /\ last.before = 3
    /\ last.rs0 = Some(197)
    /\ running_status = Some(223)

\* the last read invoked MidiMessage::read: the status was resolved and
\* `match status` took the channel arm
MidiInvoked ==
    /\ last.called /\ last.dok
    /\ StatusStep.ok
    /\ StatusClass(StatusStep.status) = "Midi"

\* C15: whatever the reads before and whatever the running-status cell has
\* come to hold, MidiMessage::read is invoked only with a status in
\* 0x80..=0xEF, so its high nibble is 0x8..=0xE and the arm "invalid midi
\* message status" is not taken.
C15_ChannelDecoderPrecondition ==
    MidiInvoked =>
        /\ StatusStep.status \in 128..239
        /\ HighNibble(StatusStep.status) \in 8..14
        /\ MidiTag(HighNibble(StatusStep.status)) # "none"
        /\ last.ok => last.kind.msg.tag = MidiTag(HighNibble(StatusStep.status))

\* MidiMessage::read invoked with the status 0xDF supplied by the cell
C15_Witness ==
    /\ MidiInvoked /\ DataFirst /\ last.ok /\ last.clean0
    /\ last.rs0 = Some(223)
    /\ StatusStep.status = 223
    /\ last.kind.msg.tag = "ChannelAftertouch"

\* C16: starting from none, after any sequence of successful and failed reads
\* the running-status cell is none or holds a byte >= 0x80, and a cell that
\* held a byte before a read holds a byte after it.
C16_CellInvariant ==
    /\ running_status = None \/ running_status[1] \in 128..255
    /\ (last.called /\ last.rs0 # None) => running_status # None

\* two failed reads in a row: the cell held 0xF1 before the second and holds
\* 0xDF after it
C16_Witness ==
    /\ last.called /\ ~last.ok /\ ~last.clean0
    /\ last.rs0 = Some(241)
    /\ running_status = Some(223)

\* C17: every successful Event::read advances the cursor by at least 2 bytes,
\* and a caller that reads a track until the first Err or the end of its
\* slice eventually stops, for good.
C17_Progress ==
    /\ []((last.called /\ last.ok) => raw.lo - last.before >= 2)
    /\ <>[](~CallerRuns)

\* the caller stopped at the end of the track after a read of two bytes, a
\* delta time and the argument of a ProgramChange under running status
C17_Witness ==
    /\ buf = <<0, 197, 0, 0, 0>>
    /\ last.called /\ last.ok /\ last.before = 3
    /\ raw.lo = 5
    /\ ~CallerRuns

====
